---- MODULE Spec2Model ----
(***************************************************************************)
(* Membership dues estimator: the catalog, the Cart class, getCarts (the   *)
(* enrollment resolver) and getBenefits (the benefit resolver) of          *)
(* src/index.ts.                                                           *)
(*                                                                         *)
(* Two specifications share the module:                                    *)
(*   CartSpec  one Cart object receiving any sequence of addItem and       *)
(*             addDiscount calls;                                          *)
(*   Spec      setCarts called on selections (getCarts, then getBenefits   *)
(*             on the carts it returned).                                  *)
(*                                                                         *)
(* Numbers: the JavaScript numbers of getTotal are modelled as exact       *)
(* rationals in lowest terms, [num, den]; the rounding of IEEE doubles is  *)
(* not modelled.                                                           *)
(***************************************************************************)
EXTENDS Integers, Sequences, FiniteSets, TLC

VARIABLES
    cart,            \* CartSpec: the Cart object under test
    addedDiscounts,  \* CartSpec: the DiscountType of every addDiscount call, in call order
    getCostParams,   \* Spec: the selection handed to the last setCarts call
    fall,            \* Spec: the fall Cart returned by the last getCarts call
    winter,          \* Spec: the winter Cart returned by the last getCarts call
    benefitsData,    \* Spec: the lists returned by the last getBenefits call
    leagueOrder,     \* Spec: getCarts' local slot pool as the last call left it
    called,          \* Spec: TRUE once setCarts has run
    calls            \* Spec: the setCarts calls made so far, counted up to MaxCalls

vars == <<cart, addedDiscounts, getCostParams, fall, winter, benefitsData, leagueOrder, called, calls>>

cartVars == <<cart, addedDiscounts>>

resolverVars == <<getCostParams, fall, winter, benefitsData, leagueOrder, called, calls>>

(***************************************************************************)
(* Bounds                                                                  *)
(***************************************************************************)
\* items one Cart of CartSpec receives
MaxItems == 2

\* addDiscount calls one Cart of CartSpec receives
MaxDiscounts == 3

\* regular leagues a selection asks for, per season
MaxLeagues == 5

\* setCarts calls that are told apart (later calls count as the MaxCalls-th)
MaxCalls == 2

(***************************************************************************)
(* Catalog                                                                 *)
(***************************************************************************)
DiscountType == {"family", "student", "reciprocal", "winterOnly"}

ItemType ==
    {"membership", "firstLeague", "secondLeague", "thirdLeague",
     "additionalLeague", "basicIce", "basicIceReduced", "social"}

items ==
    [membership       |-> [name |-> "2022-2023 annual base membership", cost |-> 135],
     firstLeague      |-> [name |-> "First league", cost |-> 155],
     secondLeague     |-> [name |-> "Second league", cost |-> 155],
     thirdLeague      |-> [name |-> "Third league", cost |-> 155],
     additionalLeague |-> [name |-> "Additional league", cost |-> 55],
     basicIce         |-> [name |-> "Basic ice privileges (unlimited sparing and daytime leagues)",
                           cost |-> 115],
     basicIceReduced  |-> [name |-> "Basic ice privileges (unlimited sparing and daytime leagues)",
                           cost |-> 55],
     social           |-> [name |-> "Social membership (no dues)", cost |-> 50]]

discounts ==
    [family     |-> [name |-> "Family discount",
                     discountStrategy |-> "percentage", discountAmount |-> 5],
     student    |-> [name |-> "Student discount",
                     discountStrategy |-> "percentage", discountAmount |-> 30],
     reciprocal |-> [name |-> "Reciprocal member discount",
                     discountStrategy |-> "absolute", discountAmount |-> 75],
     winterOnly |-> [name |-> "Winter-only discount",
                     discountStrategy |-> "absolute", discountAmount |-> 35]]

discountTypeSortValues == [absolute |-> 1, percentage |-> 2]

(***************************************************************************)
(* String.prototype.includes on the catalog's item names: the pairs        *)
(* <<name, sub>> for which name.includes(sub) is true, for the two         *)
(* substrings getLeagueCount asks about (the match is case-sensitive).     *)
(***************************************************************************)
includesTable ==
    {<<"First league", "league">>,
     <<"Second league", "league">>,
     <<"Third league", "league">>,
     <<"Additional league", "league">>,
     <<"Basic ice privileges (unlimited sparing and daytime leagues)", "league">>,
     <<"Basic ice privileges (unlimited sparing and daytime leagues)", "daytime">>}

includes(str, sub) == <<str, sub>> \in includesTable

(***************************************************************************)
(* Numbers: exact rationals in lowest terms with a positive denominator    *)
(***************************************************************************)
RECURSIVE GCD(_, _)
GCD(a, b) == IF b = 0 THEN a ELSE GCD(b, a % b)

Abs(n) == IF n < 0 THEN -n ELSE n

Rat(n, d) ==
    LET g == GCD(Abs(n), d)
    IN  [num |-> n \div g, den |-> d \div g]

\* grandTotal -= amount
RatMinus(r, amount) == Rat(r.num - amount * r.den, r.den)

\* grandTotal *= 1 - amount / 100
RatTimesPct(r, amount) == Rat(r.num * (100 - amount), r.den * 100)

(***************************************************************************)
(* Array.prototype.sort with a comparator: stable, so an element goes      *)
(* behind every element it does not compare below.                         *)
(***************************************************************************)
compareDiscounts(a, b) ==
    discountTypeSortValues[a.discountStrategy] - discountTypeSortValues[b.discountStrategy]

RECURSIVE insertSortedUnstable(_, _)
insertSortedUnstable(s, x) ==
    IF s = <<>> THEN <<x>>
    ELSE IF compareDiscounts(x, s[Len(s)]) <= 0
         THEN Append(insertSortedUnstable(SubSeq(s, 1, Len(s) - 1), x), s[Len(s)])
         ELSE Append(s, x)

RECURSIVE insertSorted(_, _)
insertSorted(s, x) ==
    IF s = <<>> THEN <<x>>
    ELSE IF compareDiscounts(x, s[Len(s)]) < 0
         THEN Append(insertSorted(SubSeq(s, 1, Len(s) - 1), x), s[Len(s)])
         ELSE Append(s, x)

RECURSIVE sort(_)
sort(s) ==
    IF s = <<>> THEN <<>>
    ELSE insertSorted(sort(SubSeq(s, 1, Len(s) - 1)), s[Len(s)])

(***************************************************************************)
(* class Cart                                                              *)
(***************************************************************************)
newCart == [cartItems |-> <<>>, cartDiscounts |-> <<>>]

addItem(c, name) == [c EXCEPT !.cartItems = Append(@, items[name])]

addDiscountUnsorted(c, name) ==
    [c EXCEPT !.cartDiscounts = Append(@, discounts[name])]

addDiscount(c, name) ==
    [c EXCEPT !.cartDiscounts = sort(Append(@, discounts[name]))]

hasItemSameSku(c, name) ==
    \E i \in DOMAIN c.cartItems : c.cartItems[i] = items[name]

hasItem(c, name) ==
    \E i \in DOMAIN c.cartItems : c.cartItems[i].name = items[name].name

isLeagueName(i) == includes(i.name, "league") /\ ~includes(i.name, "daytime")

getLeagueCount(c) == Len(SelectSeq(c.cartItems, isLeagueName))

RECURSIVE sumCosts(_)
sumCosts(s) == IF s = <<>> THEN 0 ELSE s[Len(s)].cost + sumCosts(SubSeq(s, 1, Len(s) - 1))

RECURSIVE applyDiscounts(_, _)
applyDiscounts(grandTotal, ds) ==
    IF ds = <<>> THEN grandTotal
    ELSE applyDiscounts(
             IF Head(ds).discountStrategy = "absolute"
             THEN RatMinus(grandTotal, Head(ds).discountAmount)
             ELSE RatTimesPct(grandTotal, Head(ds).discountAmount),
             Tail(ds))

getTotal(c) == applyDiscounts(Rat(sumCosts(c.cartItems), 1), c.cartDiscounts)

getItems(c) == c.cartItems

getDiscounts(c) == c.cartDiscounts

(***************************************************************************)
(* CartSpec: one Cart, any sequence of addItem and addDiscount calls       *)
(***************************************************************************)
defaultParams ==
    [fallRegularLeagues |-> 0, fallDayLeagues |-> FALSE, fallSpareOnly |-> FALSE,
     fallSocial |-> "undefined",
     winterRegularLeagues |-> 0, winterDayLeagues |-> FALSE, winterSpareOnly |-> FALSE,
     winterSocial |-> "undefined",
     discount |-> "undefined"]

noBenefits == [fall |-> <<>>, winter |-> <<>>, annual |-> <<>>]

InitResolverIdle ==
    /\ getCostParams = defaultParams
    /\ fall = newCart
    /\ winter = newCart
    /\ benefitsData = noBenefits
    /\ leagueOrder = <<>>
    /\ called = FALSE
    /\ calls = 0

CartInit ==
    /\ cart = newCart
    /\ addedDiscounts = <<>>
    /\ InitResolverIdle

AddItem(name) ==
    /\ Len(cart.cartItems) < MaxItems
    /\ cart' = addItem(cart, name)
    /\ UNCHANGED <<addedDiscounts, resolverVars>>

AddDiscount(name) ==
    /\ Len(addedDiscounts) < MaxDiscounts
    /\ cart' = addDiscount(cart, name)
    /\ addedDiscounts' = Append(addedDiscounts, name)
    /\ UNCHANGED resolverVars

CartNext ==
    \/ \E name \in ItemType : AddItem(name)
    \/ \E name \in DiscountType : AddDiscount(name)

CartSpec == CartInit /\ [][CartNext]_vars

(***************************************************************************)
(* getCarts: the enrollment resolver                                       *)
(***************************************************************************)
SocialType == {"dues", "noDues"}

GetCostParams ==
    [fallRegularLeagues   : 0 .. MaxLeagues,
     fallDayLeagues       : BOOLEAN,
     fallSpareOnly        : BOOLEAN,
     fallSocial           : SocialType \cup {"undefined"},
     winterRegularLeagues : 0 .. MaxLeagues,
     winterDayLeagues     : BOOLEAN,
     winterSpareOnly      : BOOLEAN,
     winterSocial         : SocialType \cup {"undefined"},
     discount             : (DiscountType \ {"winterOnly"}) \cup {"undefined"}]

\* const leagueOrder = [...] at the top of every getCarts call
sharedLeagueOrder ==
    IF called THEN leagueOrder ELSE <<"firstLeague", "secondLeague", "thirdLeague">>

newLeagueOrder == <<"firstLeague", "secondLeague", "thirdLeague">>

\* for (i < n) cart.addItem(leagueOrder.shift() ?? "additionalLeague")
RECURSIVE addLeaguesOwnPool(_, _, _)
addLeaguesOwnPool(c, order, n) ==
    IF n <= 0 THEN [cart |-> c, leagueOrder |-> newLeagueOrder]
    ELSE IF order # <<>>
         THEN addLeaguesOwnPool(addItem(c, Head(order)), Tail(order), n - 1)
         ELSE addLeaguesOwnPool(addItem(c, "additionalLeague"), order, n - 1)

RECURSIVE addLeagues(_, _, _)
addLeagues(c, order, n) ==
    IF n <= 0 THEN [cart |-> c, leagueOrder |-> order]
    ELSE IF order # <<>>
         THEN addLeagues(addItem(c, Head(order)), Tail(order), n - 1)
         ELSE addLeagues(addItem(c, "additionalLeague"), order, n - 1)

fallMembershipGateNoLeagues(params) ==
    \/ params.fallDayLeagues
    \/ params.fallSpareOnly
    \/ params.fallSocial = "dues"

fallMembershipGate(params) ==
    \/ params.fallDayLeagues
    \/ params.fallSpareOnly
    \/ params.fallRegularLeagues > 0
    \/ params.fallSocial = "dues"

fallIceOrSocial(params, c) ==
    IF params.fallRegularLeagues = 0
    THEN IF params.fallDayLeagues \/ params.fallSpareOnly
         THEN addItem(c, "basicIce")
         ELSE IF params.fallSocial = "noDues" THEN addItem(c, "social") ELSE c
    ELSE c

percentageDiscountElseFamily(params, c) ==
    IF params.discount = "student" THEN addDiscount(c, "student")
    ELSE IF params.discount # "undefined" THEN addDiscount(c, "family")
    ELSE c

percentageDiscount(params, c) ==
    IF params.discount = "family" THEN addDiscount(c, "family")
    ELSE IF params.discount = "student" THEN addDiscount(c, "student")
    ELSE c

fallDiscountsNoMembershipGate(params, c) ==
    IF Len(getItems(c)) > 0
    THEN percentageDiscount(params,
             IF params.discount = "reciprocal" /\ getLeagueCount(c) > 0
             THEN addDiscount(c, "reciprocal") ELSE c)
    ELSE c

fallDiscounts(params, c) ==
    IF Len(getItems(c)) > 0 /\ hasItem(c, "membership")
    THEN percentageDiscount(params,
             IF params.discount = "reciprocal" /\ getLeagueCount(c) > 0
             THEN addDiscount(c, "reciprocal") ELSE c)
    ELSE c

winterMembershipGate(params) ==
    \/ params.winterDayLeagues
    \/ params.winterSpareOnly
    \/ params.winterRegularLeagues > 0
    \/ params.winterSocial = "dues"

winterMembershipNoProration(params, fallCart, c) ==
    IF ~hasItem(fallCart, "membership") /\ winterMembershipGate(params)
    THEN addItem(c, "membership")
    ELSE c

winterMembershipAlways(params, fallCart, c) ==
    IF winterMembershipGate(params)
    THEN addDiscount(addItem(c, "membership"), "winterOnly")
    ELSE c

winterMembership(params, fallCart, c) ==
    IF ~hasItem(fallCart, "membership") /\ winterMembershipGate(params)
    THEN addDiscount(addItem(c, "membership"), "winterOnly")
    ELSE c

winterIceOrSocialAboveThree(params, fallCart, c) ==
    IF params.winterRegularLeagues = 0
    THEN IF params.winterDayLeagues \/ params.winterSpareOnly
         THEN IF getLeagueCount(fallCart) > 3
              THEN addItem(c, "basicIceReduced")
              ELSE addItem(c, "basicIce")
         ELSE IF /\ params.winterSocial = "noDues"
                 /\ ~hasItem(fallCart, "social")
                 /\ ~hasItem(fallCart, "membership")
              THEN addItem(c, "social")
              ELSE c
    ELSE c

winterIceOrSocial(params, fallCart, c) ==
    IF params.winterRegularLeagues = 0
    THEN IF params.winterDayLeagues \/ params.winterSpareOnly
         THEN IF getLeagueCount(fallCart) >= 3
              THEN addItem(c, "basicIceReduced")
              ELSE addItem(c, "basicIce")
         ELSE IF /\ params.winterSocial = "noDues"
                 /\ ~hasItem(fallCart, "social")
                 /\ ~hasItem(fallCart, "membership")
              THEN addItem(c, "social")
              ELSE c
    ELSE c

winterDiscountsReciprocalUngated(params, fallCart, c) ==
    IF Len(getItems(c)) > 0
    THEN percentageDiscount(params,
             IF params.discount = "reciprocal"
             THEN addDiscount(c, "reciprocal") ELSE c)
    ELSE c

winterDiscounts(params, fallCart, c) ==
    IF Len(getItems(c)) > 0
    THEN percentageDiscount(params,
             IF /\ params.discount = "reciprocal"
                /\ hasItem(c, "membership")
                /\ ~hasItem(fallCart, "membership")
                /\ getLeagueCount(c) > 0
             THEN addDiscount(c, "reciprocal") ELSE c)
    ELSE c

getCarts(params) ==
    LET fall1 == IF fallMembershipGate(params) THEN addItem(newCart, "membership") ELSE newCart
        fall2 == addLeagues(fall1, newLeagueOrder, params.fallRegularLeagues)
        fall3 == fallIceOrSocial(params, fall2.cart)
        fallCart == fallDiscounts(params, fall3)
        winter1 == winterMembership(params, fallCart, newCart)
        winter2 == addLeagues(winter1, fall2.leagueOrder, params.winterRegularLeagues)
        winter3 == winterIceOrSocial(params, fallCart, winter2.cart)
        winterCart == winterDiscounts(params, fallCart, winter3)
    IN  [fall |-> fallCart, winter |-> winterCart, leagueOrder |-> winter2.leagueOrder]

(***************************************************************************)
(* getBenefits: the benefit resolver                                       *)
(***************************************************************************)
isReciprocal(d) == d.name = "Reciprocal member discount"

hasReciprocal(c) ==
    \E i \in DOMAIN getDiscounts(c) : isReciprocal(getDiscounts(c)[i])

zero == Rat(0, 1)

\* const fallIce = fallCart.hasItem("basicIce") || fallLeagues > 0 (and winterIce)
isIce(c) == hasItem(c, "basicIce") \/ getLeagueCount(c) > 0

annualUnlocked(fallCart, winterCart) ==
    \/ hasItem(fallCart, "social")
    \/ hasItem(winterCart, "social")
    \/ hasItem(fallCart, "membership")
    \/ hasItem(winterCart, "membership")

duesAndVotingIgnoringReciprocal(fallCart, winterCart) ==
    IF hasItem(fallCart, "membership") \/ hasItem(winterCart, "membership")
    THEN <<"dues", "voting">>
    ELSE <<>>

duesAndVoting(fallCart, winterCart) ==
    IF hasItem(fallCart, "membership") \/ hasItem(winterCart, "membership")
    THEN (IF ~hasReciprocal(fallCart) /\ ~hasReciprocal(winterCart)
          THEN <<"dues">> ELSE <<>>) \o <<"voting">>
    ELSE <<>>

nonePlaceholderEither(fallCart, winterCart) ==
    IF getTotal(fallCart) = zero \/ getTotal(winterCart) = zero
    THEN <<"none">> ELSE <<>>

nonePlaceholder(fallCart, winterCart) ==
    IF getTotal(fallCart) = zero /\ getTotal(winterCart) = zero
    THEN <<"none">> ELSE <<>>

seasonBenefits(c) ==
    (IF isIce(c)
     THEN <<"buildingAccess", "ice", "daytime", "sparing", "rentals", "training">>
     ELSE <<>>)
    \o (IF getLeagueCount(c) > 0 THEN <<"leagues">> ELSE <<>>)

getBenefits(fallCart, winterCart) ==
    [fall   |-> seasonBenefits(fallCart),
     winter |-> seasonBenefits(winterCart),
     annual |->
         (IF annualUnlocked(fallCart, winterCart)
          THEN <<"roster", "social", "agm", "bartending">> ELSE <<>>)
         \o duesAndVoting(fallCart, winterCart)
         \o (IF isIce(fallCart) \/ isIce(winterCart) THEN <<"clubSpiel">> ELSE <<>>)
         \o nonePlaceholder(fallCart, winterCart)]

(***************************************************************************)
(* Spec: setCarts called on selections.  The first selection is any        *)
(* GetCostParams; each later call is made on the selection with at most    *)
(* one of its fields changed, so every selection follows every other       *)
(* through some sequence of calls.                                         *)
(***************************************************************************)
fieldValues ==
    [fallRegularLeagues   |-> 0 .. MaxLeagues,
     fallDayLeagues       |-> BOOLEAN,
     fallSpareOnly        |-> BOOLEAN,
     fallSocial           |-> SocialType \cup {"undefined"},
     winterRegularLeagues |-> 0 .. MaxLeagues,
     winterDayLeagues     |-> BOOLEAN,
     winterSpareOnly      |-> BOOLEAN,
     winterSocial         |-> SocialType \cup {"undefined"},
     discount             |-> (DiscountType \ {"winterOnly"}) \cup {"undefined"}]

Init ==
    /\ cart = newCart
    /\ addedDiscounts = <<>>
    /\ getCostParams \in GetCostParams
    /\ fall = newCart
    /\ winter = newCart
    /\ benefitsData = noBenefits
    /\ leagueOrder = <<>>
    /\ called = FALSE
    /\ calls = 0

setCarts(params) ==
    \E carts \in {getCarts(params)} :
        /\ getCostParams' = params
        /\ fall' = carts.fall
        /\ winter' = carts.winter
        /\ leagueOrder' = carts.leagueOrder
        /\ benefitsData' = getBenefits(carts.fall, carts.winter)
        /\ called' = TRUE
        /\ calls' = IF calls < MaxCalls THEN calls + 1 ELSE calls
        /\ UNCHANGED cartVars

SetCarts ==
    \E f \in DOMAIN fieldValues :
        \E v \in fieldValues[f] :
            setCarts([getCostParams EXCEPT ![f] = v])

Next == SetCarts

Spec == Init /\ [][Next]_vars

(***************************************************************************)
(* Claims about the Cart                                                   *)
(***************************************************************************)
RatTimes(a, b) == Rat(a.num * b.num, a.den * b.den)

strategyOf(name) == discounts[name].discountStrategy

isAbsoluteName(name) == strategyOf(name) = "absolute"

isPercentageName(name) == strategyOf(name) = "percentage"

RECURSIVE absoluteSum(_)
absoluteSum(names) ==
    IF names = <<>> THEN 0
    ELSE (IF isAbsoluteName(Head(names)) THEN discounts[Head(names)].discountAmount ELSE 0)
         + absoluteSum(Tail(names))

RECURSIVE percentageProduct(_)
percentageProduct(names) ==
    IF names = <<>> THEN Rat(1, 1)
    ELSE RatTimes(IF isPercentageName(Head(names))
                  THEN Rat(100 - discounts[Head(names)].discountAmount, 100)
                  ELSE Rat(1, 1),
                  percentageProduct(Tail(names)))

RECURSIVE costSum(_)
costSum(skus) == IF skus = <<>> THEN 0 ELSE Head(skus).cost + costSum(Tail(skus))

discountsOf(names) == [i \in DOMAIN names |-> discounts[names[i]]]

\* C1: whatever the order of the addDiscount calls, getTotal() is (sum of the item
\* costs minus the sum of the absolute discount amounts) times the product of
\* (1 - amount/100) over the percentage discounts.
C1_TotalIsAbsoluteThenPercentage ==
    getTotal(cart) =
        RatTimes(Rat(costSum(cart.cartItems) - absoluteSum(addedDiscounts), 1),
                 percentageProduct(addedDiscounts))

\* C1 witness: an absolute discount was added after a percentage discount to a cart
\* that holds items, and the total is the absolute-first total.
C1_Witness ==
    /\ cart.cartItems # <<>>
    /\ Len(addedDiscounts) >= 2
    /\ isPercentageName(addedDiscounts[1])
    /\ isAbsoluteName(addedDiscounts[2])
    /\ C1_TotalIsAbsoluteThenPercentage

\* C2: the discount sequence is every absolute discount added so far, in the order
\* added, followed by every percentage discount added so far, in the order added
\* (so nothing added is lost or duplicated).
C2_DiscountsStablySorted ==
    cart.cartDiscounts =
        discountsOf(SelectSeq(addedDiscounts, isAbsoluteName))
            \o discountsOf(SelectSeq(addedDiscounts, isPercentageName))

\* C2 witness: a percentage discount was added first, then two different absolute
\* discounts; both absolutes sit before it, in the order they were added.
C2_Witness ==
    /\ Len(addedDiscounts) = 3
    /\ isPercentageName(addedDiscounts[1])
    /\ isAbsoluteName(addedDiscounts[2])
    /\ isAbsoluteName(addedDiscounts[3])
    /\ addedDiscounts[2] # addedDiscounts[3]
    /\ cart.cartDiscounts =
           <<discounts[addedDiscounts[2]], discounts[addedDiscounts[3]],
             discounts[addedDiscounts[1]]>>

(***************************************************************************)
(* Claims about getCarts and getBenefits                                   *)
(***************************************************************************)
Range(seq) == {seq[i] : i \in DOMAIN seq}

contains(c, kind) == \E i \in DOMAIN c.cartItems : c.cartItems[i] = items[kind]

carries(c, kind) == \E i \in DOMAIN c.cartDiscounts : c.cartDiscounts[i] = discounts[kind]

leagueKinds == {"firstLeague", "secondLeague", "thirdLeague", "additionalLeague"}

isLeagueItem(sku) == \E kind \in leagueKinds : sku = items[kind]

leagueItems(c) == SelectSeq(c.cartItems, isLeagueItem)

slotAt(i) ==
    IF i = 1 THEN "firstLeague"
    ELSE IF i = 2 THEN "secondLeague"
    ELSE IF i = 3 THEN "thirdLeague"
    ELSE "additionalLeague"

\* C3: the fall cart holds exactly fallRegularLeagues league items and the winter
\* cart exactly winterRegularLeagues; reading fall's league items and then winter's,
\* the 1st is first-league, the 2nd second-league, the 3rd third-league and every
\* later one additional-league.
C3_LeagueSlotsSharedAcrossSeasons ==
    called =>
        LET all == leagueItems(fall) \o leagueItems(winter)
        IN  /\ Len(leagueItems(fall)) = getCostParams.fallRegularLeagues
            /\ Len(leagueItems(winter)) = getCostParams.winterRegularLeagues
            /\ \A i \in DOMAIN all : all[i] = items[slotAt(i)]

\* C3 witness: fall=2, winter=2 gives fall first+second, winter third+additional.
C3_Witness ==
    /\ called
    /\ getCostParams.fallRegularLeagues = 2
    /\ getCostParams.winterRegularLeagues = 2
    /\ leagueItems(fall) = <<items["firstLeague"], items["secondLeague"]>>
    /\ leagueItems(winter) = <<items["thirdLeague"], items["additionalLeague"]>>

\* C4: membership is never in both carts, and a winter cart that holds membership
\* carries the winter-only discount, whatever discount the user selected.
C4_WinterMembershipGate ==
    called =>
        /\ ~(contains(fall, "membership") /\ contains(winter, "membership"))
        /\ contains(winter, "membership") => carries(winter, "winterOnly")

\* C4 witness: the user selected reciprocal, winter holds membership and carries
\* winter-only.
C4_Witness ==
    /\ called
    /\ getCostParams.discount = "reciprocal"
    /\ contains(winter, "membership")
    /\ carries(winter, "winterOnly")
    /\ ~contains(fall, "membership")

C5_Selection ==
    [fallRegularLeagues |-> 0, fallDayLeagues |-> FALSE, fallSpareOnly |-> FALSE,
     fallSocial |-> "undefined",
     winterRegularLeagues |-> 1, winterDayLeagues |-> FALSE, winterSpareOnly |-> FALSE,
     winterSocial |-> "undefined",
     discount |-> "family"]

C5_Carts ==
    /\ fall = newCart
    /\ winter.cartItems = <<items["membership"], items["firstLeague"]>>
    /\ winter.cartDiscounts = <<discounts["winterOnly"], discounts["family"]>>

\* C5 as stated: fall=0, winter=1 regular league, discount=family gives an empty fall
\* cart, winter items membership and first-league, winter discounts winter-only then
\* family, and a winter total of 237.5.
C5_Original ==
    (called /\ getCostParams = C5_Selection) =>
        (C5_Carts /\ getTotal(winter) = Rat(2375, 10))

\* C5 amended: the same carts, and a winter total of (135+155-35)*0.95 = 242.25.
C5_WinterOnlyFamilyScenario ==
    (called /\ getCostParams = C5_Selection) =>
        (C5_Carts /\ getTotal(winter) = Rat(24225, 100))

\* C5 witness: the scenario's selection was resolved.
C5_Witness ==
    /\ called
    /\ getCostParams = C5_Selection
    /\ C5_Carts
    /\ getTotal(winter) = Rat(24225, 100)

C6_Selection ==
    [fallRegularLeagues |-> 2, fallDayLeagues |-> FALSE, fallSpareOnly |-> FALSE,
     fallSocial |-> "undefined",
     winterRegularLeagues |-> 0, winterDayLeagues |-> FALSE, winterSpareOnly |-> FALSE,
     winterSocial |-> "undefined",
     discount |-> "reciprocal"]

C6_Carts ==
    /\ fall.cartItems =
           <<items["membership"], items["firstLeague"], items["secondLeague"]>>
    /\ fall.cartDiscounts = <<discounts["reciprocal"]>>
    /\ getTotal(fall) = Rat(370, 1)
    /\ winter = newCart
    /\ getTotal(winter) = Rat(0, 1)

\* C6: fall=2 regular leagues, winter=0, discount=reciprocal gives the fall cart
\* membership, first-league, second-league with the one discount reciprocal and
\* total 370, and a winter cart with no items, no discounts and total 0.
C6_FallReciprocalScenario ==
    (called /\ getCostParams = C6_Selection) => C6_Carts

\* C6 witness: the scenario's selection was resolved.
C6_Witness == called /\ getCostParams = C6_Selection /\ C6_Carts

\* C7: "none" is in the annual list if and only if both totals are exactly zero;
\* the all-zero selection gives annual = <<"none">>, empty fall and winter lists and
\* both totals 0.
C7_NonePlaceholder ==
    called =>
        /\ ("none" \in Range(benefitsData.annual))
               <=> (getTotal(fall).num = 0 /\ getTotal(winter).num = 0)
        /\ getCostParams = defaultParams =>
               /\ benefitsData = [fall |-> <<>>, winter |-> <<>>, annual |-> <<"none">>]
               /\ getTotal(fall).num = 0
               /\ getTotal(winter).num = 0

\* C7 witness: the all-zero selection was resolved and shows the placeholder.
C7_Witness ==
    /\ called
    /\ getCostParams = defaultParams
    /\ benefitsData.annual = <<"none">>

seasonalSix == {"buildingAccess", "ice", "daytime", "sparing", "rentals", "training"}

iceEligible(c) ==
    \/ contains(c, "basicIce")
    \/ contains(c, "basicIceReduced")
    \/ Len(leagueItems(c)) > 0

sixIffIceEligible(list, c) ==
    /\ (seasonalSix \subseteq Range(list)) <=> iceEligible(c)
    /\ (seasonalSix \cap Range(list) # {}) <=> iceEligible(c)

onlyReducedIce(c) ==
    /\ contains(c, "basicIceReduced")
    /\ ~contains(c, "basicIce")
    /\ Len(leagueItems(c)) = 0

\* C8: in each season the six seasonal entitlements are in the season's list if and
\* only if the season's cart holds basic-ice at either price or a league; a winter
\* cart whose only ice item is basic-ice-reduced gets the six and clubSpiel.
C8_SeasonalEntitlements ==
    called =>
        /\ sixIffIceEligible(benefitsData.fall, fall)
        /\ sixIffIceEligible(benefitsData.winter, winter)
        /\ onlyReducedIce(winter) =>
               /\ seasonalSix \subseteq Range(benefitsData.winter)
               /\ "clubSpiel" \in Range(benefitsData.annual)

\* C8 witness: the winter cart's only ice item is basic-ice-reduced and winter has
\* the six entitlements.
C8_Witness ==
    /\ called
    /\ onlyReducedIce(winter)
    /\ seasonalSix \subseteq Range(benefitsData.winter)
    /\ "clubSpiel" \in Range(benefitsData.annual)

eitherHas(kind) == contains(fall, kind) \/ contains(winter, kind)

eitherCarriesReciprocal == carries(fall, "reciprocal") \/ carries(winter, "reciprocal")

\* C9 as stated: dues is in the annual list exactly when either cart has social or
\* membership and neither cart carries reciprocal.
C9_Original ==
    called =>
        (("dues" \in Range(benefitsData.annual))
            <=> ((eitherHas("social") \/ eitherHas("membership"))
                 /\ ~eitherCarriesReciprocal))

\* C9 amended: dues is in the annual list exactly when either cart has membership
\* and neither cart carries reciprocal; a selection whose carts hold social and no
\* membership gets the annual entitlements without dues.
C9_DuesNeedMembership ==
    called =>
        /\ ("dues" \in Range(benefitsData.annual))
               <=> (eitherHas("membership") /\ ~eitherCarriesReciprocal)
        /\ (eitherHas("social") /\ ~eitherHas("membership")) =>
               /\ "roster" \in Range(benefitsData.annual)
               /\ "dues" \notin Range(benefitsData.annual)

\* C9 witness: membership with reciprocal carried, so voting without dues.
C9_Witness ==
    /\ called
    /\ eitherHas("membership")
    /\ eitherCarriesReciprocal
    /\ "voting" \in Range(benefitsData.annual)
    /\ "dues" \notin Range(benefitsData.annual)

\* C10: with discount family or student, the fall cart carries that discount if and
\* only if it holds membership, and the winter cart carries it if and only if it is
\* non-empty.
C10_PercentageDiscountGates ==
    (called /\ getCostParams.discount \in {"family", "student"}) =>
        /\ carries(fall, getCostParams.discount) <=> contains(fall, "membership")
        /\ carries(winter, getCostParams.discount) <=> (winter.cartItems # <<>>)

\* C10 witness: membership was bought in fall, so the winter cart holds leagues and
\* no membership, and both carts carry the percentage discount.
C10_Witness ==
    /\ called
    /\ getCostParams.discount = "student"
    /\ contains(fall, "membership")
    /\ carries(fall, "student")
    /\ Len(leagueItems(winter)) > 0
    /\ ~contains(winter, "membership")
    /\ carries(winter, "student")

carriesPercentage(c) == carries(c, "family") \/ carries(c, "student")

reciprocalWithPercentage(c) == carries(c, "reciprocal") /\ carriesPercentage(c)

\* C11 as stated: there is a selection (the one in hand or any other GetCostParams)
\* for which getCarts returns a cart that carries reciprocal together with family or
\* student.
C11_Original ==
    \E params \in {getCostParams} \cup GetCostParams :
        \E carts \in {getCarts(params)} :
            reciprocalWithPercentage(carts.fall) \/ reciprocalWithPercentage(carts.winter)

\* C11 amended: no cart getCarts returns carries reciprocal together with family or
\* student (a selection names one discount); a cart that carries reciprocal carries no
\* percentage discount, and one that carries family or student carries no reciprocal.
C11_ReciprocalExcludesPercentage ==
    called =>
        /\ ~reciprocalWithPercentage(fall)
        /\ ~reciprocalWithPercentage(winter)
        /\ getCostParams.discount = "reciprocal" =>
               (~carriesPercentage(fall) /\ ~carriesPercentage(winter))

\* C11 witness: the winter cart carries reciprocal next to the automatic winter-only
\* discount, and no percentage discount.
C11_Witness ==
    /\ called
    /\ winter.cartDiscounts = <<discounts["winterOnly"], discounts["reciprocal"]>>
    /\ ~carriesPercentage(winter)

iceKinds == {"basicIce", "basicIceReduced"}

isIceItem(sku) == \E kind \in iceKinds : sku = items[kind]

iceItems(c) == SelectSeq(c.cartItems, isIceItem)

winterIceRequested ==
    /\ getCostParams.winterRegularLeagues = 0
    /\ getCostParams.winterDayLeagues \/ getCostParams.winterSpareOnly

\* C12: the winter cart holds an ice item if and only if winter asked for zero
\* regular leagues and for day-leagues or spare-only; the item is basic-ice-reduced
\* (cost 55) exactly when the fall cart's league count is >= 3 and basic-ice
\* (cost 115) otherwise; the fall cart never holds basic-ice-reduced and no cart
\* holds both ice kinds.
C12_WinterIcePrice ==
    called =>
        /\ (iceItems(winter) # <<>>) <=> winterIceRequested
        /\ winterIceRequested =>
               iceItems(winter) =
                   <<IF Len(leagueItems(fall)) >= 3
                     THEN [name |-> items["basicIce"].name, cost |-> 55]
                     ELSE [name |-> items["basicIce"].name, cost |-> 115]>>
        /\ ~contains(fall, "basicIceReduced")
        /\ ~(contains(fall, "basicIce") /\ contains(fall, "basicIceReduced"))
        /\ ~(contains(winter, "basicIce") /\ contains(winter, "basicIceReduced"))

\* C12 witness: fall day-leagues only (fall league count 0), and the winter
\* day-league request is charged full-price basic-ice.
C12_Witness ==
    /\ called
    /\ getCostParams.fallDayLeagues
    /\ getCostParams.fallRegularLeagues = 0
    /\ getCostParams.winterDayLeagues
    /\ Len(leagueItems(fall)) = 0
    /\ iceItems(winter) = <<items["basicIce"]>>
    /\ items["basicIce"].cost = 115

firstLeagueItemIsFirstLeague(fallCart, winterCart) ==
    LET all == leagueItems(fallCart) \o leagueItems(winterCart)
    IN  all # <<>> => all[1] = items["firstLeague"]

\* C13: the slot pool is fresh in every getCarts call: after any call, however many
\* leagues earlier calls consumed, the first league item is first-league, and a call
\* on the selection of the call before it returns the same carts (items and
\* discounts, hence totals) and the same benefit lists.
C13_FreshPoolEachCall ==
    [][/\ firstLeagueItemIsFirstLeague(fall', winter')
       /\ (called /\ getCostParams' = getCostParams) =>
              /\ fall' = fall
              /\ winter' = winter
              /\ getTotal(fall') = getTotal(fall)
              /\ getTotal(winter') = getTotal(winter)
              /\ benefitsData' = benefitsData]_vars

\* C13 witness: a second or later call asking for three or more leagues in each
\* season; the call before it differed in at most one field, so it drained the pool
\* too, and this call still starts at first-league and leaves its own pool empty.
C13_Witness ==
    /\ calls >= 2
    /\ getCostParams.fallRegularLeagues >= 3
    /\ getCostParams.winterRegularLeagues >= 3
    /\ leagueOrder = <<>>
    /\ leagueItems(fall)[1] = items["firstLeague"]
    /\ leagueItems(winter)[1] = items["additionalLeague"]

totalNonNegativeAndZeroOnlyIfEmpty(c) ==
    /\ getTotal(c).num >= 0
    /\ getTotal(c).den > 0
    /\ getTotal(c).num = 0 => c.cartItems = <<>>

\* C14: both carts getCarts returns have a total >= 0, and a cart's total is 0 only
\* when the cart has no items; so "none" is in the annual list exactly when both
\* carts are empty, and then it is the only annual entitlement.
C14_TotalsNeverNegative ==
    called =>
        /\ totalNonNegativeAndZeroOnlyIfEmpty(fall)
        /\ totalNonNegativeAndZeroOnlyIfEmpty(winter)
        /\ ("none" \in Range(benefitsData.annual))
               <=> (fall.cartItems = <<>> /\ winter.cartItems = <<>>)
        /\ "none" \in Range(benefitsData.annual) => benefitsData.annual = <<"none">>

\* C14 witness: the cheapest non-empty cart, a winter cart holding only social with
\* the student discount, totals 50 * 0.7 = 35, and "none" is not shown.
C14_Witness ==
    /\ called
    /\ winter.cartItems = <<items["social"]>>
    /\ winter.cartDiscounts = <<discounts["student"]>>
    /\ getTotal(winter) = Rat(35, 1)
    /\ fall.cartItems = <<>>
    /\ "none" \notin Range(benefitsData.annual)

====
